---------------------------- MODULE Spec2Model ----------------------------
(***************************************************************************)
(* Model of the semantic analyzer of tql (tql_macros/src/analyzer.rs).     *)
(*                                                                         *)
(* One behaviour is one call of analyze(): the input (table name and chain *)
(* of method calls) is drawn in Init, Start runs the table-name and        *)
(* method-name checks, one Process<method> action runs one iteration of    *)
(* the loop of process_methods, and Return assembles the result.  A query  *)
(* that analyze() returned goes through analyze_types, and a query that    *)
(* passed it is handed to the SQL backend (sql/dummy.rs: the backend built *)
(* when no dialect feature is enabled).                                    *)
(* Source positions (Span) are not modelled: no diagnostic depends on one. *)
(***************************************************************************)
EXTENDS Integers, Sequences, FiniteSets, TLC

VARIABLES
    method_calls,       \* input: [name: table name, calls: Seq of MethodCall]
    pc,                 \* "start", "process", "return", "done", "abort": analyze;
                        \* "typed": analyze_types returned; "gen", "fatal": the backend
    idx,                \* index of the next call of the loop of process_methods
    errors,             \* analyze: let mut errors
    p_errors,           \* process_methods: let mut errors
    assignments,        \* process_methods: the accumulators
    filter_expression,
    joins,
    limit,
    order,
    query_type,
    typed_fields,
    result,             \* what analyze returned
    typed,              \* what analyze_types returned
    backend,            \* the SQL backend, once created
    sql                 \* what the backend rendered

vars == <<method_calls, pc, idx, errors, p_errors, assignments, filter_expression,
          joins, limit, order, query_type, typed_fields, result, typed, backend, sql>>

-----------------------------------------------------------------------------
(* Bounds of the checked input space. *)

MaxCalls == 2

\* the nesting depth of the filter expressions of SpecExpr
MaxDepth == 1

-----------------------------------------------------------------------------
(* Types (types.rs) and the schema registry (state.rs): the registry is    *)
(* built by the #[sql_table] attribute before any analysis.                *)

Ty(t) == [t |-> t, of |-> ""]
Custom(table) == [t |-> "Custom", of |-> table]
UnsupportedType(n) == [t |-> "UnsupportedType", of |-> n]

Field(n, typ, pk) == [name |-> n, typ |-> typ, pk |-> pk]

\* The registered tables, each an ordered list of fields.
SqlTables ==
    [Person  |-> << Field("id", Ty("I32"), TRUE),
                    Field("address", Custom("Address"), FALSE),
                    Field("pet", Custom("Pet"), FALSE) >>,
     Address |-> << Field("id", Ty("I32"), TRUE),
                    Field("street", Ty("String"), FALSE),
                    Field("city", Custom("City"), FALSE),
                    Field("geo", UnsupportedType("Point"), FALSE) >>,
     City    |-> << Field("id", Ty("I32"), TRUE),
                    Field("name", Ty("String"), FALSE) >>,
     Pet     |-> << Field("name", Ty("String"), FALSE),
                    Field("owner", Custom("Ghost"), FALSE),
                    Field("tag", UnsupportedType("Uuid"), FALSE) >>]

TableNames == DOMAIN SqlTables

\* sql_tables.contains_key(name)
contains_table(name) == name \in TableNames

\* table.keys(): the field names in the registry's order
keys(table) == [k \in 1..Len(table) |-> table[k].name]

Elems(s) == {s[k] : k \in 1..Len(s)}

\* table.contains_key(identifier)
contains_key(table, identifier) == identifier \in Elems(keys(table))

\* table.get(identifier): the field's type; only used under contains_key
get_field(table, identifier) ==
    (CHOOSE f \in Elems(table) : f.name = identifier).typ

\* Option<T>
None == [some |-> FALSE]
Some(v) == [some |-> TRUE, v |-> v]

\* state::get_primary_key_field: the name of the field flagged primary key
get_primary_key_field(table) ==
    IF \E f \in Elems(table) : f.pk
    THEN Some((CHOOSE f \in Elems(table) : f.pk).name)
    ELSE None

\* gen::ToSql for Type: the dialect's SQL type string
to_sql(typ) ==
    CASE typ.t = "I32" -> "INTEGER"
      [] typ.t = "I64" -> "BIGINT"
      [] typ.t = "String" -> "CHARACTER VARYING"
      [] typ.t = "Bool" -> "BOOLEAN"
      [] typ.t = "Custom" -> "INTEGER"
      [] OTHER -> ""

\* Display for Type
type_name(typ) ==
    CASE typ.t = "Custom" -> "ForeignKey"
      [] typ.t = "UnsupportedType" -> "UnsupportedType"
      [] OTHER -> typ.t

\* state::methods_singleton: type -> method name -> SQL template
Methods ==
    [String |-> [contains    |-> "{0} LIKE '%' || {1} || '%'",
                 ends_with   |-> "{0} LIKE '%' || {1}",
                 starts_with |-> "{0} LIKE {1} || '%'"],
     I32    |-> [is_positive |-> "{0} > 0"]]

\* string::find_near: the candidate within a small edit distance, if any.
\* Names are atoms here, so the near names are tabulated.
NearNames ==
    [Persn |-> "Person", filtre |-> "filter", nam |-> "name", contain |-> "contains"]

find_near(name, candidates) ==
    IF name \in DOMAIN NearNames /\ NearNames[name] \in candidates
    THEN Some(NearNames[name])
    ELSE None

-----------------------------------------------------------------------------
(* Diagnostics (error.rs) and SqlResult.                                   *)

Error(msg, detail) == [kind |-> "error", code |-> "", msg |-> msg, detail |-> detail]
ErrorWithCode(msg, detail, code) == [kind |-> "error", code |-> code, msg |-> msg, detail |-> detail]
ErrorHelp(msg, detail) == [kind |-> "help", code |-> "", msg |-> msg, detail |-> detail]
ErrorNote(msg, detail) == [kind |-> "note", code |-> "", msg |-> msg, detail |-> detail]

Ok(v) == [tag |-> "Ok", value |-> v]
Err(es) == [tag |-> "Err", errs |-> es]
\* a panic: unreachable!() or an index out of bounds
Abort == [tag |-> "Abort"]

\* error::res: the value when no error was collected, else the errors
res(v, es) == IF es = <<>> THEN Ok(v) ELSE Err(es)

-----------------------------------------------------------------------------
(* Expressions (syntax::ast::Expr), as far as the analyzer looks at them.  *)

ExprLit(lit, val) == [node |-> "ExprLit", lit |-> lit, val |-> val]
ExprPath(segments) == [node |-> "ExprPath", segments |-> segments]
ExprBinary(op, e1, e2) == [node |-> "ExprBinary", op |-> op, lhs |-> e1, rhs |-> e2]
ExprParen(e) == [node |-> "ExprParen", expr |-> e]
ExprUnary(op, e) == [node |-> "ExprUnary", op |-> op, expr |-> e]
ExprMethodCall(method, exprs) == [node |-> "ExprMethodCall", method |-> method, exprs |-> exprs]
ExprCall(func, args) == [node |-> "ExprCall", func |-> func, args |-> args]
ExprCast(e, ty) == [node |-> "ExprCast", expr |-> e, ty |-> ty]
ExprRange(from, to) == [node |-> "ExprRange", from |-> from, to |-> to]
ExprAssign(e1, e2) == [node |-> "ExprAssign", lhs |-> e1, rhs |-> e2]
ExprTup(exprs) == [node |-> "ExprTup", exprs |-> exprs]

Ident(name) == ExprPath(<<name>>)

\* plugin::number_literal
number_literal(n) == ExprLit("i64", n)

(* The query (ast.rs). *)

NoFilters == [f |-> "NoFilters"]
Filter(operand1, operator, operand2) ==
    [f |-> "Filter", operand1 |-> operand1, operator |-> operator, operand2 |-> operand2]
Filters(operand1, operator, operand2) ==
    [f |-> "Filters", operand1 |-> operand1, operator |-> operator, operand2 |-> operand2]
NegFilter(filter) == [f |-> "NegFilter", inner |-> filter]
ParenFilter(filter) == [f |-> "ParenFilter", inner |-> filter]

RValueIdentifier(name) == [rv |-> "Identifier", name |-> name]
RValueMethodCall(arguments, identifier, name, template) ==
    [rv |-> "MethodCall", arguments |-> arguments, identifier |-> identifier,
     name |-> name, template |-> template]

NoLimit == [l |-> "NoLimit"]
LimitIndex(e) == [l |-> "Index", e1 |-> e]
LimitRange(e1, e2) == [l |-> "Range", e1 |-> e1, e2 |-> e2]
LimitStartRange(e) == [l |-> "StartRange", e1 |-> e]
LimitEndRange(e) == [l |-> "EndRange", e1 |-> e]
LimitOffset(e1, e2) == [l |-> "LimitOffset", e1 |-> e1, e2 |-> e2]

Ascending(field) == [o |-> "Ascending", field |-> field]
Descending(field) == [o |-> "Descending", field |-> field]

Assignment(identifier, value) == [identifier |-> identifier, value |-> value]

Join(left_field, left_table, right_field, right_table) ==
    [left_field |-> left_field, left_table |-> left_table,
     right_field |-> right_field, right_table |-> right_table]

TypedField(identifier, typ) == [identifier |-> identifier, typ |-> typ]

MethodCall(name, arguments) == [name |-> name, arguments |-> arguments]

-----------------------------------------------------------------------------
(* The checks and conversions of analyzer.rs.                              *)

no_primary_key(table_name) == Error("does not have a primary key", <<table_name>>)

\* check_field: the diagnostics it pushes
check_field(identifier, table_name, table) ==
    IF ~contains_key(table, identifier)
    THEN <<Error("no field with that name", <<identifier, table_name>>)>>
         \o (LET near == find_near(identifier, Elems(keys(table)))
             IN  IF near.some THEN <<ErrorHelp("did you mean", <<near.v>>)>> ELSE <<>>)
    ELSE <<>>

\* binop_to_logical_operator; "unreachable" is the unreachable!() arm
binop_to_logical_operator(binop) ==
    CASE binop = "BiAnd" -> "And"
      [] binop = "BiOr" -> "Or"
      [] OTHER -> "unreachable"

\* binop_to_relational_operator; "unreachable" is the unreachable!() arm
binop_to_relational_operator(binop) ==
    CASE binop = "BiEq" -> "Equal"
      [] binop = "BiLt" -> "LesserThan"
      [] binop = "BiLe" -> "LesserThanEqual"
      [] binop = "BiNe" -> "NotEqual"
      [] binop = "BiGe" -> "GreaterThan"
      [] binop = "BiGt" -> "GreaterThanEqual"
      [] OTHER -> "unreachable"

\* unknown_method suggesting a method name of any type
unknown_method_any_type(object_type, method_name, type_methods) ==
    <<Error("no method named", <<method_name, type_name(object_type)>>)>>
    \o (LET near == find_near(method_name,
                              UNION {DOMAIN Methods[t] : t \in DOMAIN Methods})
        IN  IF near.some THEN <<ErrorHelp("did you mean", <<near.v>>)>> ELSE <<>>)

\* unknown_method: the diagnostics it pushes
unknown_method(object_type, method_name, type_methods) ==
    <<Error("no method named", <<method_name, type_name(object_type)>>)>>
    \o (IF type_methods.some
        THEN LET near == find_near(method_name, DOMAIN type_methods.v)
             IN  IF near.some THEN <<ErrorHelp("did you mean", <<near.v>>)>> ELSE <<>>
        ELSE <<>>)

\* method_call_expression_to_filter_expression: the filter it returns and the
\* diagnostics it pushes, or Abort
method_call_expression_to_filter_expression(identifier, exprs, table_name, table, op, expr2) ==
    LET dummy == NoFilters
        Val(filter, errs) == [tag |-> "Val", filter |-> filter, errs |-> errs]
    IN  IF exprs[1].node = "ExprPath"
        THEN LET object == exprs[1].segments[1]
                 method_name == identifier
             IN  IF contains_key(table, object)
                 THEN LET object_type == get_field(table, object)
                      IN  IF object_type.t \in DOMAIN Methods
                          THEN LET type_methods == Methods[object_type.t]
                               IN  IF method_name \in DOMAIN type_methods
                                   THEN IF binop_to_relational_operator(op) = "unreachable"
                                        THEN Abort
                                        ELSE Val(Filter(RValueMethodCall(<<>>, method_name, object,
                                                                         type_methods[method_name]),
                                                        binop_to_relational_operator(op), expr2),
                                                 <<>>)
                                   ELSE Val(dummy, unknown_method(object_type, method_name, Some(type_methods)))
                          ELSE Val(dummy, unknown_method(object_type, method_name, None))
                 ELSE Val(dummy, check_field(object, table_name, table))
        ELSE Val(dummy, <<>>)

\* expression_to_filter_expression: Ok(filter), Err(errors) or Abort
RECURSIVE expression_to_filter_expression(_, _, _)
expression_to_filter_expression(arg, table_name, table) ==
    CASE arg.node = "ExprBinary" ->
            LET op == arg.op
                expr1 == arg.lhs
                expr2 == arg.rhs
            IN  CASE expr1.node = "ExprPath" ->
                        LET identifier == expr1.segments[1]
                            errs == check_field(identifier, table_name, table)
                        IN  IF binop_to_relational_operator(op) = "unreachable"
                            THEN Abort
                            ELSE res(Filter(RValueIdentifier(identifier),
                                            binop_to_relational_operator(op), expr2), errs)
                  [] expr1.node = "ExprMethodCall" ->
                        LET r == method_call_expression_to_filter_expression(
                                     expr1.method, expr1.exprs, table_name, table, op, expr2)
                        IN  IF r.tag = "Abort" THEN Abort ELSE res(r.filter, r.errs)
                  [] \/ expr1.node \in {"ExprBinary", "ExprParen"}
                     \/ (expr1.node = "ExprUnary" /\ expr1.op = "UnNot") ->
                        LET filter1 == expression_to_filter_expression(expr1, table_name, table)
                        IN  IF filter1.tag # "Ok" THEN filter1
                            ELSE LET filter2 == expression_to_filter_expression(expr2, table_name, table)
                                 IN  IF filter2.tag # "Ok" THEN filter2
                                     ELSE IF binop_to_logical_operator(op) = "unreachable"
                                          THEN Abort
                                          ELSE Ok(Filters(filter1.value,
                                                          binop_to_logical_operator(op),
                                                          filter2.value))
                  [] OTHER -> Err(<<Error("Expected identifier or binary operation", <<>>)>>)
      [] arg.node = "ExprParen" ->
            LET filter == expression_to_filter_expression(arg.expr, table_name, table)
            IN  IF filter.tag # "Ok" THEN filter ELSE Ok(ParenFilter(filter.value))
      [] arg.node = "ExprUnary" /\ arg.op = "UnNot" ->
            LET filter == expression_to_filter_expression(arg.expr, table_name, table)
            IN  IF filter.tag # "Ok" THEN filter ELSE Ok(NegFilter(filter.value))
      [] OTHER -> Err(<<Error("Expected binary operation", <<>>)>>)

\* get_expression_to_filter_expression without its arm for a literal or a path
get_expression_generic_only(arg, table_name, table) ==
    LET primary_key_field == get_primary_key_field(table)
    IN  IF primary_key_field.some
        THEN LET r == expression_to_filter_expression(arg, table_name, table)
             IN  IF r.tag = "Ok" THEN Ok(<<r.value, LimitIndex(number_literal("0"))>>) ELSE r
        ELSE Err(<<no_primary_key(table_name)>>)

\* get_expression_to_filter_expression leaving the limit unset for an expression
get_expression_no_index(arg, table_name, table) ==
    LET primary_key_field == get_primary_key_field(table)
    IN  IF primary_key_field.some
        THEN IF arg.node \in {"ExprLit", "ExprPath"}
             THEN res(<<Filter(RValueIdentifier(primary_key_field.v), "Equal", arg), NoLimit>>, <<>>)
             ELSE LET r == expression_to_filter_expression(arg, table_name, table)
                  IN  IF r.tag = "Ok" THEN Ok(<<r.value, NoLimit>>) ELSE r
        ELSE Err(<<no_primary_key(table_name)>>)

\* get_expression_to_filter_expression looking for the primary key only after
\* it has converted the argument
get_expression_primary_key_last(arg, table_name, table) ==
    LET primary_key_field == get_primary_key_field(table)
    IN  IF arg.node \in {"ExprLit", "ExprPath"}
        THEN IF primary_key_field.some
             THEN res(<<Filter(RValueIdentifier(primary_key_field.v), "Equal", arg), NoLimit>>, <<>>)
             ELSE Err(<<no_primary_key(table_name)>>)
        ELSE LET r == expression_to_filter_expression(arg, table_name, table)
             IN  IF r.tag # "Ok" THEN r
                 ELSE IF primary_key_field.some
                      THEN Ok(<<r.value, LimitIndex(number_literal("0"))>>)
                      ELSE Err(<<no_primary_key(table_name)>>)

\* get_expression_to_filter_expression: Ok(<<filter, limit>>), Err(errors) or Abort
get_expression_to_filter_expression(arg, table_name, table) ==
    LET primary_key_field == get_primary_key_field(table)
    IN  IF primary_key_field.some
        THEN IF arg.node \in {"ExprLit", "ExprPath"}
             THEN res(<<Filter(RValueIdentifier(primary_key_field.v), "Equal", arg), NoLimit>>, <<>>)
             ELSE LET r == expression_to_filter_expression(arg, table_name, table)
                  IN  IF r.tag = "Ok" THEN Ok(<<r.value, LimitIndex(number_literal("0"))>>) ELSE r
        ELSE Err(<<no_primary_key(table_name)>>)

\* argument_to_assignment
argument_to_assignment(arg, table_name, table) ==
    LET assignment == Assignment("", number_literal("0"))
    IN  IF arg.node = "ExprAssign"
        THEN IF arg.lhs.node = "ExprPath"
             THEN res(Assignment(arg.lhs.segments[1], arg.rhs),
                      check_field(arg.lhs.segments[1], table_name, table))
             ELSE res(Assignment("", arg.rhs), <<Error("Expected identifier", <<>>)>>)
        ELSE res(assignment, <<Error("Expected assignment", <<>>)>>)

\* the placeholder Join that argument_to_join starts from
EmptyJoin == Join("", "", "", "")

\* join_not_foreign_key raising nothing
join_not_foreign_key_silent(field_type) == <<>>

\* the branch of argument_to_join for a field that is not a foreign key
join_not_foreign_key(field_type) ==
    <<ErrorWithCode("mismatched types", <<"ForeignKey<_>", type_name(field_type)>>, "E0308")>>

\* join_no_primary_key raising nothing
join_no_primary_key_silent(errs, related_table_name) == res(EmptyJoin, errs)

\* the branch of argument_to_join for a foreign key to a table that is unknown
\* or has no primary key
join_no_primary_key(errs, related_table_name) ==
    res(EmptyJoin, errs \o <<no_primary_key(related_table_name)>>)

\* argument_to_join
argument_to_join(arg, table_name, table) ==
    IF arg.node = "ExprPath"
    THEN LET identifier == arg.segments[1]
             errs == check_field(identifier, table_name, table)
         IN  IF contains_key(table, identifier)
             THEN LET field_type == get_field(table, identifier)
                  IN  IF field_type.t = "Custom"
                      THEN LET related_table_name == field_type.of
                               primary_key_field ==
                                   IF contains_table(related_table_name)
                                   THEN get_primary_key_field(SqlTables[related_table_name])
                                   ELSE None
                           IN  IF primary_key_field.some
                               THEN res(Join(identifier, table_name, primary_key_field.v,
                                             related_table_name), errs)
                               ELSE join_no_primary_key(errs, related_table_name)
                      ELSE res(EmptyJoin, errs \o join_not_foreign_key(field_type))
             ELSE res(EmptyJoin, errs)
    ELSE res(EmptyJoin, <<Error("Expected identifier", <<>>)>>)

\* argument_to_order, with its nested fn identifier
argument_to_order(arg, table_name, table) ==
    CASE arg.node = "ExprUnary" /\ arg.op = "UnNeg" ->
            IF arg.expr.node = "ExprPath" /\ Len(arg.expr.segments) = 1
            THEN LET ident == res(arg.expr.segments[1],
                                  check_field(arg.expr.segments[1], table_name, table))
                 IN  IF ident.tag = "Ok" THEN res(Descending(ident.value), <<>>) ELSE ident
            ELSE Err(<<Error("Expected an identifier", <<>>)>>)
      [] arg.node = "ExprPath" ->
            res(Ascending(arg.segments[1]), check_field(arg.segments[1], table_name, table))
      [] OTHER -> res(Ascending(""), <<Error("Expected - or identifier", <<>>)>>)

\* arguments_to_limit refusing a cast
arguments_to_limit_no_cast(expression) ==
    CASE expression.node = "ExprRange" /\ ~expression.from.some /\ expression.to.some ->
            res(LimitEndRange(expression.to.v), <<>>)
      [] expression.node = "ExprRange" /\ expression.from.some /\ ~expression.to.some ->
            res(LimitStartRange(expression.from.v), <<>>)
      [] expression.node = "ExprRange" /\ expression.from.some /\ expression.to.some ->
            res(LimitRange(expression.from.v, expression.to.v), <<>>)
      [] expression.node \in {"ExprLit", "ExprPath", "ExprCall", "ExprMethodCall",
                              "ExprBinary", "ExprUnary"} ->
            res(LimitIndex(expression), <<>>)
      [] OTHER -> res(NoLimit, <<Error("Expected index range or number expression", <<>>)>>)

\* limit::argument_to_limit (analyzer/limit.rs)
argument_to_limit(expression) ==
    LET Range(from, to) == /\ expression.node = "ExprRange"
                           /\ expression.from.some = from
                           /\ expression.to.some = to
        limit_errors ==
            IF Range(FALSE, TRUE) THEN <<LimitEndRange(expression.to.v), <<>>>>
            ELSE IF Range(TRUE, FALSE) THEN <<LimitStartRange(expression.from.v), <<>>>>
            ELSE IF Range(TRUE, TRUE)
                 THEN <<LimitRange(expression.from.v, expression.to.v), <<>>>>
            ELSE IF expression.node \in {"ExprLit", "ExprPath", "ExprCall", "ExprMethodCall",
                                         "ExprBinary", "ExprUnary", "ExprCast"}
                 THEN <<LimitIndex(expression), <<>>>>
            ELSE <<NoLimit, <<Error("Expected index range or number expression", <<>>)>>>>
    IN  res(limit_errors[1], limit_errors[2])

\* arguments_to_limit
arguments_to_limit(expression) ==
    CASE expression.node = "ExprRange" /\ ~expression.from.some /\ expression.to.some ->
            res(LimitEndRange(expression.to.v), <<>>)
      [] expression.node = "ExprRange" /\ expression.from.some /\ ~expression.to.some ->
            res(LimitStartRange(expression.from.v), <<>>)
      [] expression.node = "ExprRange" /\ expression.from.some /\ expression.to.some ->
            res(LimitRange(expression.from.v, expression.to.v), <<>>)
      [] expression.node \in {"ExprLit", "ExprPath", "ExprCall", "ExprMethodCall",
                              "ExprBinary", "ExprUnary", "ExprCast"} ->
            res(LimitIndex(expression), <<>>)
      [] OTHER -> res(NoLimit, <<Error("Expected index range or number expression", <<>>)>>)

\* the items and the errors of a list of results, in order
RECURSIVE OkItems(_)
OkItems(rs) ==
    IF rs = <<>> THEN <<>>
    ELSE (IF Head(rs).tag = "Ok" THEN <<Head(rs).value>> ELSE <<>>) \o OkItems(Tail(rs))

RECURSIVE ErrItems(_)
ErrItems(rs) ==
    IF rs = <<>> THEN <<>>
    ELSE (IF Head(rs).tag = "Err" THEN Head(rs).errs ELSE <<>>) \o ErrItems(Tail(rs))

\* convert_arguments, given the result of convert_argument for each argument:
\* every argument is converted, and the items are returned only when no
\* argument raised an error
convert_arguments(converted) == res(OkItems(converted), ErrItems(converted))

\* the field names of a table that check_insert_arguments reports as missing
RECURSIVE missing_fields(_, _, _)
missing_fields(fields, names, primary_key) ==
    IF fields = <<>> THEN <<>>
    ELSE (IF Head(fields) \notin names /\ Some(Head(fields)) # primary_key
          THEN <<Head(fields)>> ELSE <<>>)
         \o missing_fields(Tail(fields), names, primary_key)

\* check_insert_arguments: the diagnostics it pushes
check_insert_arguments(assigns, table) ==
    LET names == {assigns[k].identifier : k \in 1..Len(assigns)}
        missing == missing_fields(keys(table), names, get_primary_key_field(table))
    IN  IF missing # <<>>
        THEN <<ErrorWithCode("missing fields", missing, "E0063")>>
        ELSE <<>>

\* check_no_arguments: the diagnostics it pushes
check_no_arguments(method_call) ==
    IF method_call.arguments # <<>>
    THEN <<ErrorWithCode("this method takes 0 parameters",
                         <<Len(method_call.arguments),
                           IF Len(method_call.arguments) = 1 THEN " was" ELSE "s were">>,
                         "E0061")>>
    ELSE <<>>

\* the method names known to check_methods
methods ==
    {"all", "create", "delete", "drop", "filter", "get", "insert", "join", "limit",
     "sort", "update"}

RECURSIVE unknown_methods(_)
unknown_methods(calls) ==
    IF calls = <<>> THEN <<>>
    ELSE (IF Head(calls).name \notin methods
          THEN <<Error("no method named", <<Head(calls).name, "tql">>)>>
               \o (LET near == find_near(Head(calls).name, methods)
                   IN  IF near.some THEN <<ErrorHelp("did you mean", <<near.v>>)>> ELSE <<>>)
          ELSE <<>>)
         \o unknown_methods(Tail(calls))

\* check_methods: the diagnostics it pushes
check_methods(mc) ==
    unknown_methods(mc.calls)
    \o (IF mc.calls = <<>>
        THEN <<ErrorWithCode("is the name of a struct", <<mc.name>>, "E0423"),
               ErrorHelp("did you mean to write .method()", <<mc.name>>)>>
        ELSE <<>>)

\* unknown_table_error giving no help when no table has a near name
unknown_table_error_no_hint(table_name) ==
    <<ErrorWithCode("does not name an SQL table", <<table_name>>, "E0422")>>
    \o (LET near == find_near(table_name, TableNames)
        IN  IF near.some THEN <<ErrorHelp("did you mean", <<near.v>>)>> ELSE <<>>)

\* unknown_table_error: the diagnostics it pushes
unknown_table_error(table_name) ==
    <<ErrorWithCode("does not name an SQL table", <<table_name>>, "E0422")>>
    \o (LET near == find_near(table_name, TableNames)
        IN  IF near.some
            THEN <<ErrorHelp("did you mean", <<near.v>>)>>
            ELSE <<ErrorHelp("did you forget to add the #[sql_table] attribute", <<table_name>>)>>)

\* has_joins finding a join on every field
has_joins_always(js, name) == TRUE

\* has_joins
has_joins(js, name) == \E k \in 1..Len(js) : js[k].left_field = name

RECURSIVE Flatten(_)
Flatten(ss) == IF ss = <<>> THEN <<>> ELSE Head(ss) \o Flatten(Tail(ss))

\* the fields of a table that a query selects, qualified <<table, field>>:
\* the inner match of get_query_fields
plain_fields(table, table_name) ==
    Flatten([k \in 1..Len(table) |->
                IF table[k].typ.t \in {"Custom", "UnsupportedType"}
                THEN <<>>
                ELSE << <<table_name, table[k].name>> >>])

\* get_query_fields
get_query_fields(table, table_name, js) ==
    Flatten([k \in 1..Len(table) |->
                CASE table[k].typ.t = "Custom" ->
                        IF contains_table(table[k].typ.of) /\ has_joins(js, table[k].name)
                        THEN plain_fields(SqlTables[table[k].typ.of], table[k].typ.of)
                        ELSE <<>>
                  [] table[k].typ.t = "UnsupportedType" -> <<>>
                  [] OTHER -> << <<table_name, table[k].name>> >>])

\* new_query
new_query(fields, filter, js, lim, ord, assigns, tfields, qtype, table_name) ==
    CASE qtype = "CreateTable" -> [kind |-> "CreateTable", fields |-> tfields, table |-> table_name]
      [] qtype = "Delete" -> [kind |-> "Delete", filter |-> filter, table |-> table_name]
      [] qtype = "Drop" -> [kind |-> "Drop", table |-> table_name]
      [] qtype = "Insert" -> [kind |-> "Insert", assignments |-> assigns, table |-> table_name]
      [] qtype = "Select" -> [kind |-> "Select", fields |-> fields, filter |-> filter,
                              joins |-> js, limit |-> lim, order |-> ord, table |-> table_name]
      [] qtype = "Update" -> [kind |-> "Update", assignments |-> assigns, filter |-> filter,
                              table |-> table_name]

\* the typed fields that the create arm of process_methods pushes
create_typed_fields(table) ==
    [k \in 1..Len(table) |-> TypedField(table[k].name, to_sql(table[k].typ))]

-----------------------------------------------------------------------------
(* The type checker: analyze_types and what it calls.                      *)

IntegerTypes == {"I8", "I16", "I32", "I64", "U8", "U16", "U32", "U64"}

\* the types a literal of each kind is of: a suffixed literal is of the one
\* type of its suffix, an unsuffixed one of every type of its class
LiteralTypes ==
    [bool |-> {"Bool"}, byte |-> {"U8"}, bytestr |-> {"ByteString"}, char |-> {"Char"},
     f32 |-> {"F32"}, f64 |-> {"F64"}, float |-> {"F32", "F64"},
     isize |-> {}, i8 |-> {"I8"}, i16 |-> {"I16"}, i32 |-> {"I32"}, i64 |-> {"I64"},
     usize |-> {}, u8 |-> {"U8"}, u16 |-> {"U16"}, u32 |-> {"U32"}, u64 |-> {"U64"},
     int |-> IntegerTypes, str |-> {"String"}]

\* PartialEq<Expression> for Type: a literal is compared by its type, any
\* other expression is accepted
type_eq_expression(typ, expression) ==
    IF expression.node = "ExprLit"
    THEN typ.t \in LiteralTypes[expression.lit]
    ELSE TRUE

\* get_type: the name of the type of a literal
get_type(expression) ==
    IF expression.node = "ExprLit"
    THEN CASE expression.lit = "bool" -> "bool"
           [] expression.lit = "byte" -> "u8"
           [] expression.lit = "bytestr" -> "Vec<u8>"
           [] expression.lit = "char" -> "char"
           [] expression.lit = "float" -> "floating-point variable"
           [] expression.lit = "int" -> "integral variable"
           [] expression.lit = "str" -> "String"
           [] OTHER -> expression.lit
    ELSE ""

\* check_type: the diagnostics it pushes
check_type(field_type, expression) ==
    IF ~type_eq_expression(field_type, expression)
    THEN LET literal_type == get_type(expression)
         IN  << ErrorWithCode("mismatched types", <<type_name(field_type), literal_type>>, "E0308"),
                ErrorNote("in this expansion of sql! (defined in tql)", <<>>) >>
    ELSE <<>>

\* get_field_type
get_field_type(table_name, rvalue) ==
    IF rvalue.rv = "Identifier"
    THEN IF contains_table(table_name) /\ contains_key(SqlTables[table_name], rvalue.name)
         THEN Some(get_field(SqlTables[table_name], rvalue.name))
         ELSE None
    ELSE None

\* check_field_type
check_field_type(table_name, rvalue, value) ==
    LET field_type == get_field_type(table_name, rvalue)
    IN  IF field_type.some THEN check_type(field_type.v, value) ELSE <<>>

\* analyze_assignments_types
analyze_assignments_types(assigns, table_name) ==
    Flatten([k \in 1..Len(assigns) |->
                check_field_type(table_name, RValueIdentifier(assigns[k].identifier),
                                 assigns[k].value)])

\* analyze_filter_types checking a filter only when it is a single leaf
analyze_filter_types_leaf_only(filter, table_name) ==
    IF filter.f = "Filter"
    THEN check_field_type(table_name, filter.operand1, filter.operand2)
    ELSE <<>>

RECURSIVE analyze_filter_types(_, _)
analyze_filter_types(filter, table_name) ==
    CASE filter.f = "Filter" ->
            check_field_type(table_name, filter.operand1, filter.operand2)
      [] filter.f = "Filters" ->
            analyze_filter_types(filter.operand1, table_name)
            \o analyze_filter_types(filter.operand2, table_name)
      [] filter.f = "NegFilter" -> analyze_filter_types(filter.inner, table_name)
      [] filter.f = "NoFilters" -> <<>>
      [] filter.f = "ParenFilter" -> analyze_filter_types(filter.inner, table_name)

\* analyze_limit_types checking the first bound only
analyze_limit_types_first_bound(lim) ==
    IF lim.l = "NoLimit" THEN <<>> ELSE check_type(Ty("I64"), lim.e1)

\* analyze_limit_types (analyzer.rs)
analyze_limit_types(lim) ==
    CASE lim.l = "EndRange" -> check_type(Ty("I64"), lim.e1)
      [] lim.l = "Index" -> check_type(Ty("I64"), lim.e1)
      [] lim.l = "LimitOffset" -> check_type(Ty("I64"), lim.e1) \o check_type(Ty("I64"), lim.e2)
      [] lim.l = "NoLimit" -> <<>>
      [] lim.l = "Range" -> check_type(Ty("I64"), lim.e1) \o check_type(Ty("I64"), lim.e2)
      [] lim.l = "StartRange" -> check_type(Ty("I64"), lim.e1)

\* analyze_types
analyze_types(query) ==
    LET errs ==
          CASE query.kind = "CreateTable" -> <<>>
            [] query.kind = "Delete" -> analyze_filter_types(query.filter, query.table)
            [] query.kind = "Drop" -> <<>>
            [] query.kind = "Insert" -> analyze_assignments_types(query.assignments, query.table)
            [] query.kind = "Select" ->
                  analyze_filter_types(query.filter, query.table)
                  \o analyze_limit_types(query.limit)
            [] query.kind = "Update" ->
                  analyze_filter_types(query.filter, query.table)
                  \o analyze_assignments_types(query.assignments, query.table)
    IN  res(query, errs)

-----------------------------------------------------------------------------
(* The inputs: a table name and a chain of at most MaxCalls method calls.  *)

\* the table names analyzed: registered ones (City is only joined to), a
\* misspelled one, an unknown one
InputTableNames == {"Person", "Address", "Pet", "Persn", "Xyz"}

\* the field names the arguments of a chain on table_name are written with
InputFields(table_name) ==
    IF contains_table(table_name) THEN keys(SqlTables[table_name]) ELSE <<"id">>

NonPrimaryKeys(table_name) ==
    IF contains_table(table_name)
    THEN missing_fields(keys(SqlTables[table_name]), {}, get_primary_key_field(SqlTables[table_name]))
    ELSE <<"id">>

SomeLit == ExprLit("i32", "1")
Assign(name) == ExprAssign(Ident(name), SomeLit)
Assigns(names) == [k \in 1..Len(names) |-> Assign(names[k])]
Compare(op, name) == ExprBinary(op, Ident(name), SomeLit)

\* the argument expressions of filter and get
FilterArgs(table_name) ==
    LET F == InputFields(table_name)
    IN  { Compare("BiEq", F[1]),
          Compare("BiEq", "zzz"),
          Compare("BiAdd", F[1]),
          ExprBinary("BiAnd", ExprParen(Compare("BiEq", F[1])), Compare("BiLt", F[Len(F)])) }

GetArgs(table_name) ==
    FilterArgs(table_name) \cup {ExprLit("i32", "1"), Ident("value")}

InsertArgs(table_name) ==
    LET N == NonPrimaryKeys(table_name)
        F == InputFields(table_name)
    IN  { Assigns(N), Assigns(F), Assigns(Tail(N)), Assigns(<<"zzz">>),
          Assigns(<<N[1], "zzz">>), <<>>, <<SomeLit>>,
          [k \in 1..Len(N) |-> ExprAssign(Ident(N[k]), Ident("value"))] }

UpdateArgs(table_name) ==
    LET N == NonPrimaryKeys(table_name)
    IN  { Assigns(N), Assigns(<<"zzz">>) }

JoinArgs(table_name) ==
    LET F == InputFields(table_name)
        C == IF contains_table(table_name)
             THEN {f \in Elems(SqlTables[table_name]) : f.typ.t = "Custom"}
             ELSE {}
    IN  { <<Ident(F[k])>> : k \in 1..Len(F) }
        \cup { <<Ident(fg[1].name), Ident(fg[2].name)>> :
                 fg \in {p \in C \X C : p[1] # p[2]} }
        \cup { <<Ident("zzz")>>, <<SomeLit>> }

LimitArgs ==
    { <<ExprRange(None, Some(ExprLit("i64", "2")))>>,
      <<ExprLit("i64", "10")>>,
      <<ExprTup(<<>>)>>,
      <<>> }

SortArgs(table_name) ==
    LET F == InputFields(table_name)
    IN  { <<Ident(F[1])>>, <<ExprUnary("UnNeg", Ident(F[Len(F)]))>>, <<SomeLit>> }

\* the method calls of a chain on a name that is not a table: none is dispatched
UnknownTableCalls ==
    { MethodCall(m, a) : m \in methods \cup {"filtre"}, a \in {<<>>, <<Ident("id")>>} }

\* the method calls of a chain on a registered table
KnownTableCalls(table_name) ==
    { MethodCall("all", <<>>) }
    \cup { MethodCall("create", <<>>) }
    \cup { MethodCall("delete", a) : a \in {<<>>, <<SomeLit, SomeLit>>} }
    \cup { MethodCall("drop", <<>>) }
    \cup { MethodCall("filter", <<e>>) : e \in FilterArgs(table_name) }
    \cup { MethodCall("filter", <<>>) }
    \cup { MethodCall("get", <<e>>) : e \in GetArgs(table_name) }
    \cup { MethodCall("get", <<>>) }
    \cup { MethodCall("insert", a) : a \in InsertArgs(table_name) }
    \cup { MethodCall("update", a) : a \in UpdateArgs(table_name) }
    \cup { MethodCall("join", a) : a \in JoinArgs(table_name) }
    \cup { MethodCall("limit", a) : a \in LimitArgs }
    \cup { MethodCall("sort", a) : a \in SortArgs(table_name) }
    \cup { MethodCall("filtre", <<Compare("BiEq", "id")>>) }

InputCalls(table_name) ==
    IF contains_table(table_name) THEN KnownTableCalls(table_name) ELSE UnknownTableCalls

RECURSIVE SeqsUpTo(_, _)
SeqsUpTo(S, n) ==
    IF n = 0 THEN {<<>>}
    ELSE LET shorter == SeqsUpTo(S, n - 1)
         IN  shorter \cup {Append(c, x) : c \in shorter, x \in S}

MethodCalls(table_name, calls) == [name |-> table_name, calls |-> calls]

(* The inputs of SpecExpr: one call on Address with an argument of every    *)
(* shape, a filter call possibly followed by delete() or update(..).       *)

Lit(lit) == ExprLit(lit, "1")

\* comparisons of a field with a literal or a variable
CoreLeaves ==
    { ExprBinary("BiEq", Ident("id"), Lit("i32")),
      ExprBinary("BiNe", Ident("id"), Lit("str")),
      ExprBinary("BiLt", Ident("street"), Lit("i64")),
      ExprBinary("BiEq", Ident("id"), Lit("int")),
      ExprBinary("BiEq", Ident("zzz"), Lit("i32")) }

RECURSIVE FilterTrees(_)
FilterTrees(depth) ==
    IF depth = 0 THEN CoreLeaves
    ELSE LET T == FilterTrees(depth - 1)
         IN  T \cup { ExprParen(t) : t \in T }
               \cup { ExprUnary("UnNot", ExprParen(t)) : t \in T }
               \cup { ExprBinary(op, t1, t2) : op \in {"BiAnd", "BiOr"}, t1 \in T, t2 \in T }

\* the binary operators of syntax::ast::BinOp_
BinOps ==
    { "BiAdd", "BiSub", "BiMul", "BiDiv", "BiRem", "BiAnd", "BiOr", "BiBitXor", "BiBitAnd",
      "BiBitOr", "BiShl", "BiShr", "BiEq", "BiLt", "BiLe", "BiNe", "BiGe", "BiGt" }

\* field.method(argument) <op> value
MethodLeaf(object, method, args, op, value) ==
    ExprBinary(op, ExprMethodCall(method, <<object>> \o args), value)

MethodLeaves ==
    { MethodLeaf(Ident("street"), "contains", <<a>>, "BiEq", Lit("bool")) :
          a \in {Lit("i32"), Lit("str"), Ident("value")} }
    \cup { MethodLeaf(Ident("id"), "is_positive", <<>>, "BiEq", Lit("bool")),
           MethodLeaf(Ident("street"), "contain", <<Lit("str")>>, "BiEq", Lit("bool")),
           MethodLeaf(Ident("street"), "is_positive", <<>>, "BiNe", Lit("bool")),
           MethodLeaf(Ident("id"), "contain", <<Lit("str")>>, "BiEq", Lit("bool")),
           MethodLeaf(Ident("id"), "contains", <<Lit("str")>>, "BiLt", Lit("bool")),
           MethodLeaf(Ident("zzz"), "contains", <<Lit("str")>>, "BiEq", Lit("bool")),
           MethodLeaf(Ident("geo"), "contains", <<Lit("str")>>, "BiEq", Lit("bool")),
           MethodLeaf(ExprCall("f", <<>>), "contains", <<Lit("str")>>, "BiEq", Lit("bool")),
           MethodLeaf(Ident("street"), "contains", <<Lit("str")>>, "BiAdd", Lit("bool")) }

\* connectives whose operands are both invalid, or one of them
InvalidOperands ==
    LET bad == { ExprBinary("BiEq", Ident("zzz"), Lit("i32")),
                 ExprBinary("BiEq", Ident("yyy"), Lit("i32")),
                 ExprParen(ExprBinary("BiEq", Lit("i32"), Lit("i32"))),
                 ExprBinary("BiEq", ExprMethodCall("contain", <<Ident("street"), Lit("str")>>),
                            Lit("bool")) }
        good == { ExprBinary("BiEq", Ident("id"), Lit("i32")) }
    IN  { ExprBinary(op, e1, e2) :
             op \in {"BiAnd", "BiOr"}, e1 \in bad \cup good, e2 \in bad }
        \cup { ExprBinary(op, ExprParen(e1), ExprUnary("UnNot", ExprParen(e2))) :
                 op \in {"BiAnd", "BiOr"}, e1 \in bad, e2 \in bad \cup good }

FilterExprs ==
    FilterTrees(MaxDepth)
    \cup { ExprBinary(op, Ident("id"), Lit("i32")) : op \in BinOps }
    \cup { ExprBinary(op, ExprParen(ExprBinary("BiEq", Ident("id"), Lit("i32"))),
                      ExprBinary("BiEq", Ident("id"), Lit("i32"))) : op \in BinOps }
    \cup MethodLeaves
    \cup InvalidOperands
    \cup { Lit("i32"), Ident("value"), ExprUnary("UnNeg", Ident("id")), ExprCall("f", <<>>),
           ExprBinary("BiEq", Lit("i32"), Lit("i32")) }

\* the bounds written in a limit
Bounds == { Lit("i64"), Lit("i32"), Lit("int"), Lit("str"), Lit("bool"), Ident("value") }

LimitExprs ==
    { ExprRange(None, Some(b)) : b \in Bounds }
    \cup { ExprRange(Some(b), None) : b \in Bounds }
    \cup { ExprRange(Some(b1), Some(b2)) : b1 \in Bounds, b2 \in Bounds }
    \cup Bounds
    \cup { ExprRange(None, None),
           ExprCall("f", <<>>),
           ExprMethodCall("len", <<Ident("value")>>),
           ExprBinary("BiAdd", Lit("i64"), Lit("i64")),
           ExprUnary("UnNeg", Lit("i64")),
           ExprCast(Lit("i32"), "i64"),
           ExprParen(Lit("i64")),
           ExprTup(<<Lit("i64"), Lit("i64")>>),
           ExprAssign(Ident("value"), Lit("i64")) }

ExprChains ==
    { <<MethodCall("filter", <<e>>)>> : e \in FilterExprs }
    \cup { <<MethodCall("filter", <<e>>), t>> :
             e \in FilterExprs,
             t \in { MethodCall("delete", <<>>),
                     MethodCall("update", <<ExprAssign(Ident("street"), Lit("i32"))>>) } }
    \cup { <<MethodCall("get", <<e>>)>> : e \in FilterExprs }
    \cup { <<MethodCall("limit", <<e>>)>> : e \in LimitExprs }
    \cup { <<c>> : c \in KnownTableCalls("Address") }

\* the Select queries analyze_types is given, with a limit of every variant
LimitedQueries ==
    LET Limits == { NoLimit }
                  \cup { LimitIndex(b) : b \in Bounds }
                  \cup { LimitStartRange(b) : b \in Bounds }
                  \cup { LimitEndRange(b) : b \in Bounds }
                  \cup { LimitRange(b1, b2) : b1 \in Bounds, b2 \in Bounds }
                  \cup { LimitOffset(b1, b2) : b1 \in Bounds, b2 \in Bounds }
    IN  { new_query(get_query_fields(SqlTables["Address"], "Address", <<>>), NoFilters, <<>>,
                    l, <<>>, <<>>, <<>>, "Select", "Address") : l \in Limits }

-----------------------------------------------------------------------------
(* analyze() as a state machine.                                           *)

table_name == method_calls.name
calls == method_calls.calls
table == SqlTables[table_name]
method_call == calls[idx]

\* the locals of analyze and of process_methods when analyze is entered
InitLocals ==
    /\ idx = 1
    /\ errors = <<>>
    /\ p_errors = <<>>
    /\ assignments = <<>>
    /\ filter_expression = NoFilters
    /\ joins = <<>>
    /\ limit = NoLimit
    /\ order = <<>>
    /\ query_type = "Select"
    /\ typed_fields = <<>>
    /\ typed = [tag |-> "None"]
    /\ backend = "None"
    /\ sql = [tag |-> "None"]

Init ==
    /\ \E name \in InputTableNames :
          \E cs \in SeqsUpTo(InputCalls(name), MaxCalls) :
             method_calls = MethodCalls(name, cs)
    /\ pc = "start"
    /\ result = [tag |-> "None"]
    /\ InitLocals

\* one call on Address with an argument of every shape
InitExpr ==
    /\ \E cs \in ExprChains : method_calls = MethodCalls("Address", cs)
    /\ pc = "start"
    /\ result = [tag |-> "None"]
    /\ InitLocals

\* analyze_types is entered with a Select query
InitTypes ==
    /\ method_calls = MethodCalls("Address", <<MethodCall("all", <<>>)>>)
    /\ pc = "done"
    /\ \E query \in LimitedQueries : result = Ok(query)
    /\ InitLocals

Accumulators == <<assignments, filter_expression, joins, limit, order, query_type, typed_fields>>

\* what the later stages hold
Stages == <<typed, backend, sql>>

\* analyze, up to the match on the table: the table-name and method-name checks
Start ==
    /\ pc = "start"
    /\ errors' = (IF ~contains_table(table_name) THEN unknown_table_error(table_name) ELSE <<>>)
                 \o check_methods(method_calls)
    /\ pc' = IF contains_table(table_name) THEN "process" ELSE "return"
    /\ UNCHANGED <<method_calls, idx, p_errors, Accumulators, result, Stages>>

\* one iteration of the loop of process_methods is about to run
AtCall(name) ==
    /\ pc = "process"
    /\ idx <= Len(calls)
    /\ method_call.name = name

\* the iteration ends normally
NextCall ==
    /\ idx' = idx + 1
    /\ UNCHANGED <<method_calls, pc, errors, result, Stages>>

\* the iteration panics
Panic ==
    /\ pc' = "abort"
    /\ result' = Abort
    /\ UNCHANGED <<method_calls, idx, errors, p_errors, Accumulators, Stages>>

\* the errors that try() appends
try_errors(r) == IF r.tag = "Err" THEN r.errs ELSE <<>>

ProcessAll ==
    /\ AtCall("all")
    /\ p_errors' = p_errors \o check_no_arguments(method_call)
    /\ NextCall
    /\ UNCHANGED Accumulators

ProcessCreate ==
    /\ AtCall("create")
    /\ p_errors' = p_errors \o check_no_arguments(method_call)
    /\ query_type' = "CreateTable"
    /\ typed_fields' = typed_fields \o create_typed_fields(table)
    /\ NextCall
    /\ UNCHANGED <<assignments, filter_expression, joins, limit, order>>

\* the delete arm keeping the kind an earlier terminal method set
ProcessDeleteFirstWins ==
    /\ AtCall("delete")
    /\ p_errors' = p_errors \o check_no_arguments(method_call)
    /\ query_type' = IF query_type = "Select" THEN "Delete" ELSE query_type
    /\ NextCall
    /\ UNCHANGED <<assignments, filter_expression, joins, limit, order, typed_fields>>

ProcessDelete ==
    /\ AtCall("delete")
    /\ p_errors' = p_errors \o check_no_arguments(method_call)
    /\ query_type' = "Delete"
    /\ NextCall
    /\ UNCHANGED <<assignments, filter_expression, joins, limit, order, typed_fields>>

ProcessDrop ==
    /\ AtCall("drop")
    /\ p_errors' = p_errors \o check_no_arguments(method_call)
    /\ query_type' = "Drop"
    /\ NextCall
    /\ UNCHANGED <<assignments, filter_expression, joins, limit, order, typed_fields>>

ProcessFilter ==
    /\ AtCall("filter")
    /\ IF method_call.arguments = <<>>
       THEN Panic
       ELSE LET r == expression_to_filter_expression(method_call.arguments[1], table_name, table)
            IN  IF r.tag = "Abort"
                THEN Panic
                ELSE /\ filter_expression' = IF r.tag = "Ok" THEN r.value ELSE filter_expression
                     /\ p_errors' = p_errors \o try_errors(r)
                     /\ NextCall
                     /\ UNCHANGED <<assignments, joins, limit, order, query_type, typed_fields>>

ProcessGet ==
    /\ AtCall("get")
    /\ IF method_call.arguments = <<>>
       THEN Panic
       ELSE LET r == get_expression_to_filter_expression(method_call.arguments[1], table_name, table)
            IN  IF r.tag = "Abort"
                THEN Panic
                ELSE /\ filter_expression' = IF r.tag = "Ok" THEN r.value[1] ELSE filter_expression
                     /\ limit' = IF r.tag = "Ok" THEN r.value[2] ELSE limit
                     /\ p_errors' = p_errors \o try_errors(r)
                     /\ NextCall
                     /\ UNCHANGED <<assignments, joins, order, query_type, typed_fields>>

ProcessInsert ==
    /\ AtCall("insert")
    /\ LET r == convert_arguments([k \in 1..Len(method_call.arguments) |->
                    argument_to_assignment(method_call.arguments[k], table_name, table)])
       IN  /\ assignments' = IF r.tag = "Ok" THEN r.value ELSE assignments
           /\ p_errors' = p_errors \o try_errors(r) \o check_insert_arguments(assignments', table)
    /\ query_type' = "Insert"
    /\ NextCall
    /\ UNCHANGED <<filter_expression, joins, limit, order, typed_fields>>

ProcessJoin ==
    /\ AtCall("join")
    /\ LET r == convert_arguments([k \in 1..Len(method_call.arguments) |->
                    argument_to_join(method_call.arguments[k], table_name, table)])
       IN  /\ joins' = IF r.tag = "Ok" THEN joins \o r.value ELSE joins
           /\ p_errors' = p_errors \o try_errors(r)
    /\ NextCall
    /\ UNCHANGED <<assignments, filter_expression, limit, order, query_type, typed_fields>>

ProcessLimit ==
    /\ AtCall("limit")
    /\ IF method_call.arguments = <<>>
       THEN Panic
       ELSE LET r == arguments_to_limit(method_call.arguments[1])
            IN  /\ limit' = IF r.tag = "Ok" THEN r.value ELSE limit
                /\ p_errors' = p_errors \o try_errors(r)
                /\ NextCall
                /\ UNCHANGED <<assignments, filter_expression, joins, order, query_type, typed_fields>>

\* the sort arm adding its orders to those of the earlier sort calls
ProcessSortAppends ==
    /\ AtCall("sort")
    /\ LET r == convert_arguments([k \in 1..Len(method_call.arguments) |->
                    argument_to_order(method_call.arguments[k], table_name, table)])
       IN  /\ order' = IF r.tag = "Ok" THEN order \o r.value ELSE order
           /\ p_errors' = p_errors \o try_errors(r)
    /\ NextCall
    /\ UNCHANGED <<assignments, filter_expression, joins, limit, query_type, typed_fields>>

ProcessSort ==
    /\ AtCall("sort")
    /\ LET r == convert_arguments([k \in 1..Len(method_call.arguments) |->
                    argument_to_order(method_call.arguments[k], table_name, table)])
       IN  /\ order' = IF r.tag = "Ok" THEN r.value ELSE order
           /\ p_errors' = p_errors \o try_errors(r)
    /\ NextCall
    /\ UNCHANGED <<assignments, filter_expression, joins, limit, query_type, typed_fields>>

ProcessUpdate ==
    /\ AtCall("update")
    /\ LET r == convert_arguments([k \in 1..Len(method_call.arguments) |->
                    argument_to_assignment(method_call.arguments[k], table_name, table)])
       IN  /\ assignments' = IF r.tag = "Ok" THEN r.value ELSE assignments
           /\ p_errors' = p_errors \o try_errors(r)
    /\ query_type' = "Update"
    /\ NextCall
    /\ UNCHANGED <<filter_expression, joins, limit, order, typed_fields>>

\* the arm of a method name that check_methods has reported
ProcessUnknown ==
    /\ pc = "process"
    /\ idx <= Len(calls)
    /\ method_call.name \notin methods
    /\ NextCall
    /\ UNCHANGED <<p_errors, Accumulators>>

\* process_methods returns: try! in analyze returns its errors at once
EndProcess ==
    /\ pc = "process"
    /\ idx > Len(calls)
    /\ IF p_errors # <<>>
       THEN /\ result' = Err(p_errors)
            /\ pc' = "done"
       ELSE /\ result' = result
            /\ pc' = "return"
    /\ UNCHANGED <<method_calls, idx, errors, p_errors, Accumulators, Stages>>

\* the end of analyze: the query is built and returned unless errors were collected
Return ==
    /\ pc = "return"
    /\ LET fields == IF contains_table(table_name)
                     THEN get_query_fields(table, table_name, joins)
                     ELSE <<>>
       IN  result' = res(new_query(fields, filter_expression, joins, limit, order,
                                   assignments, typed_fields, query_type, table_name),
                         errors)
    /\ pc' = "done"
    /\ UNCHANGED <<method_calls, idx, errors, p_errors, Accumulators, Stages>>

\* analyze_types, called with the query that analyze returned
AnalyzeTypes ==
    /\ pc = "done"
    /\ result.tag = "Ok"
    /\ typed' = analyze_types(result.value)
    /\ pc' = "typed"
    /\ UNCHANGED <<method_calls, idx, errors, p_errors, Accumulators, result, backend, sql>>

\* create_sql_backend, called to render a query that passed analyze_types
CreateSqlBackend ==
    /\ pc = "typed"
    /\ typed.tag = "Ok"
    /\ backend' = "DummySqlBackend"
    /\ pc' = "gen"
    /\ UNCHANGED <<method_calls, idx, errors, p_errors, Accumulators, result, typed, sql>>

\* the backend's first use: unreachable!()
Fatal ==
    /\ sql' = Abort
    /\ pc' = "fatal"
    /\ UNCHANGED <<method_calls, idx, errors, p_errors, Accumulators, result, typed, backend>>

\* insert_query returning the text of a statement
InsertQueryRenders ==
    /\ pc = "gen"
    /\ typed.value.kind = "Insert"
    /\ sql' = Ok("INSERT")
    /\ pc' = "rendered"
    /\ UNCHANGED <<method_calls, idx, errors, p_errors, Accumulators, result, typed, backend>>

\* DummySqlBackend::insert_query, rendering an Insert query
InsertQuery ==
    /\ pc = "gen"
    /\ typed.value.kind = "Insert"
    /\ Fatal

\* Aggregate::to_sql, rendering the aggregates of a Select query
AggregateToSql ==
    /\ pc = "gen"
    /\ typed.value.kind = "Select"
    /\ Fatal

Next ==
    \/ Start
    \/ ProcessAll
    \/ ProcessCreate
    \/ ProcessDelete
    \/ ProcessDrop
    \/ ProcessFilter
    \/ ProcessGet
    \/ ProcessInsert
    \/ ProcessJoin
    \/ ProcessLimit
    \/ ProcessSort
    \/ ProcessUpdate
    \/ ProcessUnknown
    \/ EndProcess
    \/ Return
    \/ AnalyzeTypes
    \/ CreateSqlBackend
    \/ InsertQuery
    \/ AggregateToSql

Spec == Init /\ [][Next]_vars

\* analyze and the later stages on one call with an argument of every shape
SpecExpr == InitExpr /\ [][Next]_vars

\* analyze_types alone, on the Select queries with a limit of every variant
NextTypes == AnalyzeTypes

SpecTypes == InitTypes /\ [][NextTypes]_vars

TypeOK ==
    /\ pc \in {"start", "process", "return", "done", "abort", "typed", "gen", "fatal"}
    /\ result.tag \in {"None", "Ok", "Err", "Abort"}
    /\ typed.tag \in {"None", "Ok", "Err"}
    /\ backend \in {"None", "DummySqlBackend"}
    /\ sql.tag \in {"None", "Ok", "Abort"}
    /\ query_type \in {"CreateTable", "Delete", "Drop", "Insert", "Select", "Update"}

-----------------------------------------------------------------------------
(* Properties.                                                             *)

Known == contains_table(table_name)
Returned == pc \in {"done", "abort"}
IsQuery(kind) == result.tag = "Ok" /\ result.value.kind = kind

\* the diagnostics that the step of process_methods now taken appends
NewErrors == SubSeq(p_errors', Len(p_errors) + 1, Len(p_errors'))

\* one iteration of the loop of process_methods, for a call of the method name
Step(name) == AtCall(name) /\ idx' = idx + 1

\* the field names that the arguments of an insert or update call assign
AssignedNames(arguments) ==
    { arguments[k].lhs.segments[1] :
        k \in {j \in 1..Len(arguments) :
                  arguments[j].node = "ExprAssign" /\ arguments[j].lhs.node = "ExprPath"} }

\* the fields of a table other than its primary key
NonPrimaryKeyFields(t) == {f.name : f \in {g \in Elems(t) : ~g.pk}}

\* C1: analyze returns a Query IR if and only if no check of the pass raised a
\* diagnostic, and returns the diagnostics whenever one was raised.
C1_QueryIffNoDiagnostic ==
    Returned =>
        /\ result.tag = "Ok" <=> (errors = <<>> /\ p_errors = <<>>)
        /\ (errors # <<>> \/ p_errors # <<>>) => result.tag = "Err"

\* C1, on the runs in which analyze returns: a Query IR if and only if no
\* diagnostic was raised, else the diagnostics.
C1_QueryIffNoDiagnosticWhenReturning ==
    pc = "done" =>
        /\ result.tag = "Ok" <=> (errors = <<>> /\ p_errors = <<>>)
        /\ (errors # <<>> \/ p_errors # <<>>) => (result.tag = "Err" /\ result.errs # <<>>)

\* C2: the chain T.insert(args) yields an Insert IR if and only if the set of
\* field names the arguments assign equals the fields of T minus its primary key.
C2_InsertIffExactFields ==
    (pc = "done" /\ Known /\ Len(calls) = 1 /\ calls[1].name = "insert") =>
        (IsQuery("Insert") <=>
            AssignedNames(calls[1].arguments) = NonPrimaryKeyFields(table))

\* C3: an insert call that leaves non-primary-key fields unassigned produces
\* exactly one E0063 diagnostic, which lists all and only the fields that no
\* argument of the call assigns, whatever the rest of the call and the chain.
C3_MissingFieldsListed ==
    [][(Step("insert") /\ NonPrimaryKeyFields(table) \ AssignedNames(method_call.arguments) # {}) =>
          LET e0063 == {k \in 1..Len(NewErrors) : NewErrors[k].code = "E0063"}
          IN  /\ Cardinality(e0063) = 1
              /\ \A k \in e0063 :
                    Elems(NewErrors[k].detail) =
                        NonPrimaryKeyFields(table) \ AssignedNames(method_call.arguments)]_vars

\* C4: T.get(v), v a literal or a path and P the primary key of T, yields a
\* Select whose filter is the single leaf P = v and whose limit is NoLimit.
C4_GetLiteralIsPrimaryKeyFilter ==
    (pc = "done" /\ Known /\ calls # <<>> /\ calls[Len(calls)].name = "get"
        /\ calls[Len(calls)].arguments # <<>>
        /\ calls[Len(calls)].arguments[1].node \in {"ExprLit", "ExprPath"}
        /\ \E f \in Elems(table) : f.pk) =>
        /\ Len(calls) = 1 => IsQuery("Select")
        /\ IsQuery("Select") =>
              /\ \E f \in Elems(table) :
                    /\ f.pk
                    /\ result.value.filter =
                          Filter(RValueIdentifier(f.name), "Equal", calls[Len(calls)].arguments[1])
              /\ result.value.limit = NoLimit

C4_Witness ==
    /\ pc = "done" /\ Known /\ Len(calls) = 1 /\ calls[1].name = "get"
    /\ calls[1].arguments # <<>>
    /\ calls[1].arguments[1].node = "ExprLit"
    /\ IsQuery("Select")
    /\ result.value.filter.f = "Filter"

\* C5: T.get(expr), expr neither a literal nor a path and T with a primary key,
\* yields a Select whose filter is the tree that filter(expr) builds and whose
\* limit is Index(0); where filter(expr) builds none, get(expr) fails as it does.
C5_GetExpressionIsFilter ==
    (Returned /\ Known /\ Len(calls) = 1 /\ calls[1].name = "get"
        /\ calls[1].arguments # <<>>
        /\ calls[1].arguments[1].node \notin {"ExprLit", "ExprPath"}
        /\ \E f \in Elems(table) : f.pk) =>
        LET built == expression_to_filter_expression(calls[1].arguments[1], table_name, table)
        IN  CASE built.tag = "Ok" ->
                    /\ IsQuery("Select")
                    /\ result.value.filter = built.value
                    /\ result.value.limit = LimitIndex(ExprLit("i64", "0"))
              [] built.tag = "Err" -> result = Err(built.errs)
              [] OTHER -> result.tag = "Abort"

C5_Witness ==
    /\ pc = "done" /\ Known /\ Len(calls) = 1 /\ calls[1].name = "get"
    /\ calls[1].arguments # <<>>
    /\ calls[1].arguments[1].node = "ExprBinary"
    /\ IsQuery("Select")
    /\ result.value.filter.f = "Filters"
    /\ result.value.limit.l = "Index"

\* an argument of join that names a foreign key of the table whose referenced
\* table is unknown or has no primary key
Dangling(arg) ==
    /\ arg.node = "ExprPath"
    /\ \E f \in Elems(table) :
          /\ f.name = arg.segments[1]
          /\ f.typ.t = "Custom"
          /\ ~(f.typ.of \in TableNames /\ \E g \in Elems(SqlTables[f.typ.of]) : g.pk)

DanglingArguments(arguments) == {k \in 1..Len(arguments) : Dangling(arguments[k])}

\* the referenced table of the foreign key an argument of join names
Referenced(arg) == (CHOOSE f \in Elems(table) : f.name = arg.segments[1]).typ.of

\* the joins of the arguments of a join call that convert without error
ValidJoins(arguments) ==
    OkItems([k \in 1..Len(arguments) |-> argument_to_join(arguments[k], table_name, table)])

\* C6 as stated: a join call with a dangling foreign key raises 'does not have
\* a primary key' for it and appends the joins of its other, valid arguments.
C6_JoinShortOneEntry ==
    [][(Step("join") /\ DanglingArguments(method_call.arguments) # {}) =>
          /\ \A k \in DanglingArguments(method_call.arguments) :
                no_primary_key(Referenced(method_call.arguments[k])) \in Elems(NewErrors)
          /\ joins' = joins \o ValidJoins(method_call.arguments)]_vars

\* C6 as amended: a join call with a dangling foreign key raises 'does not have
\* a primary key' for it and adds no Join at all, the joins of the earlier join
\* calls being kept.
C6_JoinCallAddsNothing ==
    [][(Step("join") /\ DanglingArguments(method_call.arguments) # {}) =>
          /\ \A k \in DanglingArguments(method_call.arguments) :
                no_primary_key(Referenced(method_call.arguments[k])) \in Elems(NewErrors)
          /\ joins' = joins]_vars

C6_Witness ==
    /\ pc = "process" /\ idx = 3
    /\ calls[1].name = "join" /\ calls[2].name = "join"
    /\ Len(calls[2].arguments) = 2
    /\ DanglingArguments(calls[2].arguments) # {}
    /\ ValidJoins(calls[2].arguments) # <<>>
    /\ joins # <<>>
    /\ p_errors # <<>>

\* a Join of the analyzed table on one of its foreign keys, to the primary key
\* of the table the foreign key references
WellFormedJoin(j) ==
    /\ j.left_table = table_name
    /\ \E f \in Elems(table) :
          /\ f.name = j.left_field
          /\ f.typ.t = "Custom"
          /\ j.right_table = f.typ.of
          /\ f.typ.of \in TableNames
          /\ \E g \in Elems(SqlTables[f.typ.of]) : g.pk /\ j.right_field = g.name

\* C7: every Join in the join accumulator, and in a Select, is a well-formed
\* join of the analyzed table, never the placeholder with empty names.
C7_JoinsWellFormed ==
    /\ \A k \in 1..Len(joins) : WellFormedJoin(joins[k]) /\ joins[k] # EmptyJoin
    /\ IsQuery("Select") =>
          \A k \in 1..Len(result.value.joins) :
              WellFormedJoin(result.value.joins[k]) /\ result.value.joins[k] # EmptyJoin

C7_Witness ==
    /\ Known /\ IsQuery("Select")
    /\ Len(result.value.joins) = 2
    /\ Len(calls) = 2 /\ calls[1].name = "join" /\ calls[2].name = "join"

\* the fields of a table that are neither foreign keys nor of an unsupported type
Plain(t) == {f \in Elems(t) : f.typ.t \notin {"Custom", "UnsupportedType"}}

\* the foreign keys of the analyzed table that a join of the list is on
JoinedForeignKeys(js) ==
    {f \in Elems(table) : f.typ.t = "Custom" /\ \E k \in 1..Len(js) : js[k].left_field = f.name}

\* C8: a Select projects T.f for every plain field f of T and R.g for every
\* joined foreign key of T to R and every plain field g of R, and nothing else.
C8_SelectProjection ==
    (Known /\ IsQuery("Select")) =>
        LET q == result.value
            own == {<<table_name, f.name>> : f \in Plain(table)}
            joined == UNION { {<<f.typ.of, g.name>> : g \in Plain(SqlTables[f.typ.of])} :
                                f \in JoinedForeignKeys(q.joins) }
            pairs == UNION { {<<f.name, g.name>> : g \in Plain(SqlTables[f.typ.of])} :
                                f \in JoinedForeignKeys(q.joins) }
        IN  /\ Elems(q.fields) = own \cup joined
            /\ Len(q.fields) = Cardinality(own) + Cardinality(pairs)
            /\ \A f \in Elems(table) :
                  f.typ.t \in {"Custom", "UnsupportedType"} => <<table_name, f.name>> \notin Elems(q.fields)

C8_Witness ==
    /\ Known /\ IsQuery("Select")
    /\ result.value.joins # <<>>
    /\ \E k \in 1..Len(result.value.fields) : result.value.fields[k][1] # table_name
    /\ \E f \in Elems(table) : f.typ.t = "Custom" /\ ~has_joins(result.value.joins, f.name)

\* C9: a CreateTable IR of a chain on T has one typed field per field of T, in
\* declaration order, each with the field's SQL type string.
C9_CreateTableFields ==
    (Known /\ IsQuery("CreateTable")) =>
        /\ Len(result.value.fields) = Len(table)
        /\ \A k \in 1..Len(table) :
              result.value.fields[k] = TypedField(table[k].name, to_sql(table[k].typ))

\* the kind a terminal method sets
TerminalKind ==
    [create |-> "CreateTable", delete |-> "Delete", drop |-> "Drop",
     insert |-> "Insert", update |-> "Update"]

RECURSIVE LastTerminalKind(_)
LastTerminalKind(cs) ==
    IF cs = <<>> THEN "Select"
    ELSE IF cs[Len(cs)].name \in DOMAIN TerminalKind
         THEN TerminalKind[cs[Len(cs)].name]
         ELSE LastTerminalKind(SubSeq(cs, 1, Len(cs) - 1))

\* the calls of a terminal method that raise no diagnostic on their own
CleanTerminals ==
    { MethodCall(m, <<>>) : m \in {"create", "delete", "drop"} }
    \cup { MethodCall(m, Assigns(NonPrimaryKeys(table_name))) : m \in {"insert", "update"} }

\* C10: the kind of the Query IR is Select when the chain has no terminal
\* method, else the kind of its last terminal method, and a chain of several
\* terminal methods raises no diagnostic for that.
C10_LastTerminalWins ==
    (pc = "done" /\ Known) =>
        /\ result.tag = "Ok" => result.value.kind = LastTerminalKind(calls)
        /\ (calls # <<>> /\ \A k \in 1..Len(calls) : calls[k] \in CleanTerminals) =>
              result.tag = "Ok"

C10_Witness ==
    /\ pc = "done" /\ Known /\ Len(calls) = 2
    /\ calls[1].name = "update" /\ calls[2].name = "delete"
    /\ IsQuery("Delete")

-----------------------------------------------------------------------------
(* The type checker.                                                       *)

\* analyze_types has returned for the query that analyze returned
Typed == typed.tag # "None"
TypedErrors == IF typed.tag = "Err" THEN typed.errs ELSE <<>>

\* the type a literal has by its suffix or its form
TypeOfLiteral ==
    [i32 |-> {"I32"}, i64 |-> {"I64"}, str |-> {"String"}, bool |-> {"Bool"},
     int |-> {"I8", "I16", "I32", "I64", "U8", "U16", "U32", "U64"}]

\* the leaves of a filter, left to right
RECURSIVE Leaves(_)
Leaves(filter) ==
    CASE filter.f = "Filter" -> <<filter>>
      [] filter.f = "Filters" -> Leaves(filter.operand1) \o Leaves(filter.operand2)
      [] filter.f \in {"NegFilter", "ParenFilter"} -> Leaves(filter.inner)
      [] OTHER -> <<>>

\* a leaf comparing a known field with a literal of another type than the field's
Mismatching(leaf, tn) ==
    /\ leaf.operand1.rv = "Identifier"
    /\ contains_key(SqlTables[tn], leaf.operand1.name)
    /\ leaf.operand2.node = "ExprLit"
    /\ get_field(SqlTables[tn], leaf.operand1.name).t \notin TypeOfLiteral[leaf.operand2.lit]

\* the two diagnostics of a mismatching leaf
MismatchedTypes(leaf, tn) ==
    << [kind |-> "error", code |-> "E0308", msg |-> "mismatched types",
        detail |-> <<type_name(get_field(SqlTables[tn], leaf.operand1.name)),
                     get_type(leaf.operand2)>>],
       [kind |-> "note", code |-> "", msg |-> "in this expansion of sql! (defined in tql)",
        detail |-> <<>>] >>

ExpectedFilterDiagnostics(filter, tn) ==
    LET ls == Leaves(filter)
    IN  Flatten([k \in 1..Len(ls) |->
                    IF Mismatching(ls[k], tn) THEN MismatchedTypes(ls[k], tn) ELSE <<>>])

\* what analyze_types reports for the other parts of the query
OtherDiagnostics(query) ==
    CASE query.kind = "Select" -> analyze_limit_types(query.limit)
      [] query.kind = "Update" -> analyze_assignments_types(query.assignments, query.table)
      [] OTHER -> <<>>

\* C11: analyze_types reports, for the filter of a Select, Delete or Update
\* query, exactly one E0308 "mismatched types" diagnostic naming the declared
\* and the literal type, followed by its note, for each leaf at any nesting
\* depth that compares a known field with a literal of another type, in the
\* order of the leaves, and nothing for any other leaf.
C11_FilterLeavesTypeChecked ==
    (Typed /\ result.value.kind \in {"Select", "Delete", "Update"}) =>
        TypedErrors = ExpectedFilterDiagnostics(result.value.filter, result.value.table)
                      \o OtherDiagnostics(result.value)

\* a mismatching leaf nested under a negation and parentheses was reported,
\* and so were both mismatching leaves of a conjunction
C11_Witness ==
    /\ Typed
    /\ result.value.kind = "Select"
    /\ result.value.filter.f = "NegFilter"
    /\ \E k \in 1..Len(TypedErrors) :
          /\ TypedErrors[k].code = "E0308"
          /\ TypedErrors[k].detail = <<"String", "i64">>

\* the bounds of a limit
BoundsOf(lim) ==
    CASE lim.l = "NoLimit" -> <<>>
      [] lim.l \in {"Range", "LimitOffset"} -> <<lim.e1, lim.e2>>
      [] OTHER -> <<lim.e1>>

\* a bound that is a literal of another type than I64
WrongBound(b) == b.node = "ExprLit" /\ "I64" \notin TypeOfLiteral[b.lit]

\* what analyze_types reports after the diagnostics of the filter
LimitErrors ==
    SubSeq(TypedErrors,
           Len(ExpectedFilterDiagnostics(result.value.filter, result.value.table)) + 1,
           Len(TypedErrors))

\* C12: for a Select query, every bound of the limit, whatever its variant
\* (one bound for Index, StartRange and EndRange, two for Range and
\* LimitOffset), is checked as an I64: each bound that is a literal of another
\* type is reported by one E0308 expecting I64 and its note, and the query
\* does not pass analyze_types.
C12_LimitBoundsTypedI64 ==
    (Typed /\ result.value.kind = "Select") =>
        LET bs == BoundsOf(result.value.limit)
            wrong == {k \in 1..Len(bs) : WrongBound(bs[k])}
        IN  /\ Len(LimitErrors) = 2 * Cardinality(wrong)
            /\ \A k \in wrong :
                  \E n \in 1..Len(LimitErrors) :
                     /\ LimitErrors[n].code = "E0308"
                     /\ LimitErrors[n].detail = <<"I64", get_type(bs[k])>>
            /\ (wrong # {} => typed.tag = "Err")

\* a LimitOffset whose first bound is an i64 and whose second is a string was refused
C12_Witness ==
    /\ Typed
    /\ result.value.kind = "Select"
    /\ result.value.limit.l = "LimitOffset"
    /\ ~WrongBound(result.value.limit.e1)
    /\ WrongBound(result.value.limit.e2)
    /\ typed.tag = "Err"

-----------------------------------------------------------------------------
(* Accumulation of the diagnostics.                                        *)

\* C13: when analyze returns, every diagnostic that the table-name and
\* method-name checks raised and every diagnostic that the dispatch of a call
\* raised is in the list analyze returns.
C13_AllDiagnosticsReturned ==
    (pc = "done" /\ errors \o p_errors # <<>>) =>
        /\ result.tag = "Err"
        /\ \A e \in Elems(errors \o p_errors) : e \in Elems(result.errs)

-----------------------------------------------------------------------------
(* An unknown table.                                                       *)

\* the diagnostics that name a table that is not registered
IsUnknownTable(e) == e.code = "E0422"
IsTableHelp(e) ==
    /\ e.kind = "help"
    /\ \/ e.msg = "did you forget to add the #[sql_table] attribute"
       \/ (e.msg = "did you mean" /\ e.detail[1] \in TableNames)

\* the messages of the method-name check
MethodNameMessages ==
    {"no method named", "did you mean", "is the name of a struct",
     "did you mean to write .method()"}

\* C14: a chain on a name that is not a registered table is refused with
\* exactly one E0422 diagnostic followed by exactly one help (the near table
\* name if there is one, else the #[sql_table] hint); no call is dispatched,
\* so the other diagnostics are those of the method-name check only.
C14_UnknownTable ==
    ~Known =>
        /\ idx = 1 /\ p_errors = <<>>
        /\ filter_expression = NoFilters /\ joins = <<>> /\ assignments = <<>>
        /\ pc = "done" =>
              /\ result.tag = "Err"
              /\ Len(result.errs) >= 2
              /\ result.errs[1] = [kind |-> "error", code |-> "E0422",
                                   msg |-> "does not name an SQL table",
                                   detail |-> <<table_name>>]
              /\ result.errs[2] =
                    IF \E t \in TableNames : find_near(table_name, TableNames) = Some(t)
                    THEN [kind |-> "help", code |-> "", msg |-> "did you mean",
                          detail |-> <<find_near(table_name, TableNames).v>>]
                    ELSE [kind |-> "help", code |-> "",
                          msg |-> "did you forget to add the #[sql_table] attribute",
                          detail |-> <<table_name>>]
              /\ \A k \in 3..Len(result.errs) :
                    /\ ~IsUnknownTable(result.errs[k])
                    /\ ~IsTableHelp(result.errs[k])
                    /\ result.errs[k].msg \in MethodNameMessages

\* a chain with an insert call on a name no table is near to was refused
C14_Witness ==
    /\ ~Known
    /\ pc = "done"
    /\ table_name = "Xyz"
    /\ Len(calls) = 2
    /\ calls[1].name = "insert"
    /\ Len(result.errs) = 2

-----------------------------------------------------------------------------
(* get on a table without primary key.                                     *)

\* C15: a call get(arg) on a table that has no primary key pushes the one
\* diagnostic "does not have a primary key", whatever the argument is, and
\* leaves the filter and the limit as they were.
C15_GetWithoutPrimaryKey ==
    [][ ( /\ AtCall("get")
          /\ ~get_primary_key_field(table).some
          /\ method_call.arguments # <<>> )
        => ( /\ pc' = "process"
             /\ idx' = idx + 1
             /\ NewErrors = <<[kind |-> "error", code |-> "",
                               msg |-> "does not have a primary key",
                               detail |-> <<table_name>>]>>
             /\ filter_expression' = filter_expression
             /\ limit' = limit ) ]_vars

\* get with a comparison for argument, after a limit call, on a table without
\* primary key: the limit stayed and the one diagnostic was pushed
C15_Witness ==
    /\ Known
    /\ ~get_primary_key_field(table).some
    /\ Len(calls) = 2
    /\ calls[1].name = "limit"
    /\ calls[2].name = "get"
    /\ calls[2].arguments # <<>>
    /\ calls[2].arguments[1].node = "ExprBinary"
    /\ idx = 3
    /\ limit # NoLimit
    /\ p_errors = <<no_primary_key(table_name)>>

-----------------------------------------------------------------------------
(* Method calls in a filter.                                               *)

\* the chain is one filter call comparing object.method(argument) with a value
MethodCallFilter(object, method) ==
    /\ Len(calls) = 1
    /\ calls[1].name = "filter"
    /\ calls[1].arguments # <<>>
    /\ calls[1].arguments[1].node = "ExprBinary"
    /\ calls[1].arguments[1].lhs.node = "ExprMethodCall"
    /\ calls[1].arguments[1].lhs.method = method
    /\ calls[1].arguments[1].lhs.exprs[1] = Ident(object)

\* C16: a filter comparing street.contains(argument) with a value, street
\* being a String and the argument an i32 literal, is refused by the type
\* check with an E0308 expecting String and finding i32.
C16_MethodArgumentTypeChecked ==
    ( /\ Typed
      /\ table_name = "Address"
      /\ MethodCallFilter("street", "contains")
      /\ calls[1].arguments[1].lhs.exprs[2] = ExprLit("i32", "1") )
    => \E k \in 1..Len(TypedErrors) :
          /\ TypedErrors[k].code = "E0308"
          /\ TypedErrors[k].detail = <<"String", "i32">>

-----------------------------------------------------------------------------
(* The backend of a build without dialect (sql/dummy.rs).                  *)

\* C17: with no dialect enabled, creating the backend always succeeds and
\* renders nothing, and its first use (insert_query for an Insert query,
\* to_sql of an aggregate of a Select query) fails fatally and yields no SQL.
C17_NoDialectFailsAtFirstUse ==
    [][ /\ (pc = "typed") =>
              (backend' = "DummySqlBackend" /\ pc' = "gen" /\ sql' = [tag |-> "None"])
        /\ (pc = "gen") => (sql' = Abort /\ pc' = "fatal")
        /\ sql'.tag # "Ok" ]_vars

\* the backend was created for an Insert query and its insert_query has failed
C17_Witness ==
    /\ pc = "fatal"
    /\ backend = "DummySqlBackend"
    /\ typed.tag = "Ok"
    /\ typed.value.kind = "Insert"
    /\ sql = Abort

-----------------------------------------------------------------------------
(* The comparison operators.                                               *)

\* the relational operator that each comparison token means
TokenMeaning ==
    [BiEq |-> "Equal", BiNe |-> "NotEqual", BiLt |-> "LesserThan",
     BiLe |-> "LesserThanEqual", BiGt |-> "GreaterThan", BiGe |-> "GreaterThanEqual"]

\* C18: the Filter leaf that a filter call builds from "field <op> value"
\* carries the relational operator that the token <op> means.
C18_ComparisonTokens ==
    ( /\ pc = "done"
      /\ result.tag = "Ok"
      /\ Len(calls) = 1
      /\ calls[1].name = "filter"
      /\ calls[1].arguments # <<>>
      /\ calls[1].arguments[1].node = "ExprBinary"
      /\ calls[1].arguments[1].op \in DOMAIN TokenMeaning
      /\ calls[1].arguments[1].lhs.node = "ExprPath" )
    => /\ result.value.filter.f = "Filter"
       /\ result.value.filter.operator = TokenMeaning[calls[1].arguments[1].op]

-----------------------------------------------------------------------------
(* Panics.                                                                 *)

\* C19: on a registered table and a chain of known methods, whatever the
\* arguments, analyze does not abort: no unreachable!() is executed and no
\* missing argument is read.
C19_NeverAborts ==
    (Known /\ \A k \in 1..Len(calls) : calls[k].name \in methods) => pc # "abort"

-----------------------------------------------------------------------------
(* The argument of limit.                                                  *)

\* the limit that an argument of each shape stands for, if any
LimitOfShape(e) ==
    CASE e.node = "ExprRange" /\ ~e.from.some /\ e.to.some ->
            Some([l |-> "EndRange", e1 |-> e.to.v])
      [] e.node = "ExprRange" /\ e.from.some /\ ~e.to.some ->
            Some([l |-> "StartRange", e1 |-> e.from.v])
      [] e.node = "ExprRange" /\ e.from.some /\ e.to.some ->
            Some([l |-> "Range", e1 |-> e.from.v, e2 |-> e.to.v])
      [] e.node \in {"ExprLit", "ExprPath", "ExprCall", "ExprMethodCall", "ExprBinary",
                     "ExprUnary", "ExprCast"} ->
            Some([l |-> "Index", e1 |-> e])
      [] OTHER -> None

\* C20: a limit call sets the limit by the shape of its argument (a range
\* with an end only: EndRange; a start only: StartRange; both: Range; a
\* literal, path, call, method call, binary, unary or cast: Index) and
\* raises nothing; any other argument raises the one diagnostic "Expected
\* index range or number expression" and leaves the limit as it was.  The
\* conversions of analyzer.rs and of analyzer/limit.rs agree on the argument.
C20_LimitByShape ==
    [][ (AtCall("limit") /\ method_call.arguments # <<>>) =>
          LET e == method_call.arguments[1]
          IN  /\ idx' = idx + 1
              /\ IF LimitOfShape(e).some
                 THEN limit' = LimitOfShape(e).v /\ NewErrors = <<>>
                 ELSE /\ limit' = limit
                      /\ NewErrors = <<[kind |-> "error", code |-> "",
                                        msg |-> "Expected index range or number expression",
                                        detail |-> <<>>]>>
              /\ argument_to_limit(e) = arguments_to_limit(e) ]_vars

\* limit(1i32 as i64) has set the limit to that index
C20_Witness ==
    /\ Len(calls) = 1
    /\ calls[1].name = "limit"
    /\ calls[1].arguments # <<>>
    /\ calls[1].arguments[1].node = "ExprCast"
    /\ idx = 2
    /\ limit = LimitIndex(calls[1].arguments[1])
    /\ p_errors = <<>>

-----------------------------------------------------------------------------
(* Logical connectives in a filter.                                        *)

LogicalMeaning == [BiAnd |-> "And", BiOr |-> "Or"]

\* the argument of the filter call is a connective of two sub-filters
ConnectiveArgument(e) ==
    /\ e.node = "ExprBinary"
    /\ e.op \in DOMAIN LogicalMeaning
    /\ \/ e.lhs.node \in {"ExprBinary", "ExprParen"}
       \/ (e.lhs.node = "ExprUnary" /\ e.lhs.op = "UnNot")

\* C21: a filter call whose argument is "left && right" or "left || right"
\* converts both operands: when both are valid the filter becomes Filters of
\* the two results with the operator And or Or, and the diagnostics pushed
\* are those of the left operand followed by those of the right operand, so
\* the diagnostics of an invalid right operand are reported even when the
\* left operand is invalid too.
C21_BothOperandsReported ==
    [][ ( /\ AtCall("filter")
          /\ method_call.arguments # <<>>
          /\ ConnectiveArgument(method_call.arguments[1])
          /\ expression_to_filter_expression(method_call.arguments[1].lhs, table_name, table).tag
                # "Abort"
          /\ expression_to_filter_expression(method_call.arguments[1].rhs, table_name, table).tag
                # "Abort" )
        => LET e == method_call.arguments[1]
               left == expression_to_filter_expression(e.lhs, table_name, table)
               right == expression_to_filter_expression(e.rhs, table_name, table)
           IN  /\ idx' = idx + 1
               /\ NewErrors = try_errors(left) \o try_errors(right)
               /\ (left.tag = "Ok" /\ right.tag = "Ok") =>
                     filter_expression' = [f |-> "Filters", operand1 |-> left.value,
                                           operator |-> LogicalMeaning[e.op],
                                           operand2 |-> right.value] ]_vars

\* the part of C21 about valid operands: the two results are wrapped in
\* Filters with the operator of the connective
C21_ValidOperandsWrapped ==
    [][ ( /\ AtCall("filter")
          /\ method_call.arguments # <<>>
          /\ ConnectiveArgument(method_call.arguments[1])
          /\ expression_to_filter_expression(method_call.arguments[1].lhs, table_name, table).tag
                = "Ok"
          /\ expression_to_filter_expression(method_call.arguments[1].rhs, table_name, table).tag
                = "Ok" )
        => LET e == method_call.arguments[1]
               left == expression_to_filter_expression(e.lhs, table_name, table)
               right == expression_to_filter_expression(e.rhs, table_name, table)
           IN  /\ NewErrors = <<>>
               /\ filter_expression' = [f |-> "Filters", operand1 |-> left.value,
                                        operator |-> LogicalMeaning[e.op],
                                        operand2 |-> right.value] ]_vars

-----------------------------------------------------------------------------
(* Method calls on a field in a filter.                                    *)

\* the argument of the filter call compares field.method(..) with a value,
\* the field being one of the table
MethodComparison(e) ==
    /\ e.node = "ExprBinary"
    /\ e.op \in DOMAIN TokenMeaning
    /\ e.lhs.node = "ExprMethodCall"
    /\ e.lhs.exprs[1].node = "ExprPath"
    /\ contains_key(table, e.lhs.exprs[1].segments[1])

\* C22: for a filter comparing field.method(..) with a value, the field
\* being known: when the method registry has a template for the field's type
\* and the method name, the filter becomes a leaf whose operand1 is the
\* method call on that field carrying that template, and nothing is raised;
\* otherwise "no method named" is raised for that method and type, followed
\* at most by one "did you mean" naming a method registered for that type
\* (none when the type has no methods), and the filter is left as it was.
C22_MethodTemplate ==
    [][ ( /\ AtCall("filter")
          /\ method_call.arguments # <<>>
          /\ MethodComparison(method_call.arguments[1]) )
        => LET e == method_call.arguments[1]
               object == e.lhs.exprs[1].segments[1]
               typ == get_field(table, object)
               registered == IF typ.t \in DOMAIN Methods THEN DOMAIN Methods[typ.t] ELSE {}
           IN  /\ idx' = idx + 1
               /\ IF e.lhs.method \in registered
                  THEN /\ NewErrors = <<>>
                       /\ filter_expression'.f = "Filter"
                       /\ filter_expression'.operand1.rv = "MethodCall"
                       /\ filter_expression'.operand1.name = object
                       /\ filter_expression'.operand1.identifier = e.lhs.method
                       /\ filter_expression'.operand1.template = Methods[typ.t][e.lhs.method]
                       /\ filter_expression'.operand2 = e.rhs
                  ELSE /\ filter_expression' = filter_expression
                       /\ Len(NewErrors) \in {1, 2}
                       /\ NewErrors[1] = [kind |-> "error", code |-> "",
                                          msg |-> "no method named",
                                          detail |-> <<e.lhs.method, type_name(typ)>>]
                       /\ Len(NewErrors) = 2 =>
                             /\ NewErrors[2].kind = "help"
                             /\ NewErrors[2].msg = "did you mean"
                             /\ NewErrors[2].detail[1] \in registered ]_vars

\* street.contain(..) == .. was refused with a suggestion of contains, a
\* method of String
C22_Witness ==
    /\ MethodCallFilter("street", "contain")
    /\ idx = 2
    /\ filter_expression = NoFilters
    /\ Len(p_errors) = 2
    /\ p_errors[1].msg = "no method named"
    /\ p_errors[2].detail = <<"contains">>

-----------------------------------------------------------------------------
(* The accumulators of process_methods.                                    *)

\* what the conversion of the arguments of a call returns, by method
Conversion(c) ==
    CASE c.name = "filter" -> expression_to_filter_expression(c.arguments[1], table_name, table)
      [] c.name = "get" -> get_expression_to_filter_expression(c.arguments[1], table_name, table)
      [] c.name = "limit" -> arguments_to_limit(c.arguments[1])
      [] c.name \in {"insert", "update"} ->
            convert_arguments([k \in 1..Len(c.arguments) |->
                argument_to_assignment(c.arguments[k], table_name, table)])
      [] c.name = "join" ->
            convert_arguments([k \in 1..Len(c.arguments) |->
                argument_to_join(c.arguments[k], table_name, table)])
      [] c.name = "sort" ->
            convert_arguments([k \in 1..Len(c.arguments) |->
                argument_to_order(c.arguments[k], table_name, table)])

\* the call is one of the named methods and its conversion succeeded
Wrote(c, names) == c.name \in names /\ Conversion(c).tag = "Ok"

\* the calls that process_methods has dispatched
Dispatched == SubSeq(calls, 1, idx - 1)

\* the last of the first n dispatched calls that wrote with one of the
\* named methods, 0 if none did
RECURSIVE LastWriter(_, _)
LastWriter(n, names) ==
    IF n = 0 THEN 0
    ELSE IF Wrote(Dispatched[n], names) THEN n ELSE LastWriter(n - 1, names)

\* the joins of the successful join calls among the first n dispatched calls
RECURSIVE JoinsOfCalls(_)
JoinsOfCalls(n) ==
    IF n = 0 THEN <<>>
    ELSE JoinsOfCalls(n - 1)
         \o (IF Wrote(Dispatched[n], {"join"}) THEN Conversion(Dispatched[n]).value ELSE <<>>)

\* C23: at every point of the loop of process_methods on a registered table,
\* the filter, the limit, the order and the assignments are what the last
\* dispatched call that successfully wrote them produced (filter and get
\* write the filter, limit and get the limit, sort the order, insert and
\* update the assignments), their initial value if no call did, and the
\* joins are the concatenation in call order of the joins of the successful
\* join calls; a call that raised a diagnostic in its conversion wrote nothing.
C23_LastWriterWins ==
    (Known /\ pc \in {"process", "abort"}) =>
        LET n == Len(Dispatched)
            f == LastWriter(n, {"filter", "get"})
            l == LastWriter(n, {"limit", "get"})
            o == LastWriter(n, {"sort"})
            a == LastWriter(n, {"insert", "update"})
        IN  /\ filter_expression =
                  IF f = 0 THEN NoFilters
                  ELSE IF Dispatched[f].name = "get" THEN Conversion(Dispatched[f]).value[1]
                  ELSE Conversion(Dispatched[f]).value
            /\ limit =
                  IF l = 0 THEN NoLimit
                  ELSE IF Dispatched[l].name = "get" THEN Conversion(Dispatched[l]).value[2]
                  ELSE Conversion(Dispatched[l]).value
            /\ order = IF o = 0 THEN <<>> ELSE Conversion(Dispatched[o]).value
            /\ assignments = IF a = 0 THEN <<>> ELSE Conversion(Dispatched[a]).value
            /\ joins = JoinsOfCalls(n)

\* two sort calls have both succeeded and the order is that of the second
\* one alone
C23_Witness ==
    /\ Known
    /\ Len(calls) = 2
    /\ idx = 3
    /\ Wrote(calls[1], {"sort"})
    /\ Wrote(calls[2], {"sort"})
    /\ calls[1] # calls[2]
    /\ order = Conversion(calls[2]).value

=============================================================================
